---- MODULE Spec2Model ----
(***************************************************************************)
(* Grow-only set CRDT (src/set/gset.rs).                                   *)
(*                                                                         *)
(* A GSet<T> is a struct with one field, `elements: HashSet<T>`.  The      *)
(* model keeps a GSet as the record [elements |-> S].  The std HashSet is  *)
(* modelled by what its methods do: insert adds one value and reports      *)
(* whether it was new, extend inserts the values an iterator yields one    *)
(* after the other, == compares lengths and then membership.  The order in *)
(* which a HashSet yields its values is not fixed by the language, so      *)
(* every order is a possible one: merge returns the SET of states the      *)
(* call can leave `self` in.                                               *)
(*                                                                         *)
(* Three specifications share the module:                                  *)
(*   Spec      replicas mutated by insert, apply and merge of snapshots;   *)
(*   FairSpec  operation-based replication with fair delivery;             *)
(*   LawSpec   the property tests: arbitrary inputs, then one law is run.  *)
(***************************************************************************)
EXTENDS Naturals, Integers, FiniteSets, Sequences, TLC

\* ------------------------------------------------------------- bounds ----
MaxElem == 3
NumReplicas == 2
MaxSnapshots == 1
MaxOthers == 2
MaxOps == 3

\* The element type T is an unsigned integer type (u32 and u8 in the tests),
\* scaled down to MaxElem values: 0 up to TMax, which stands for T::MAX.
TMax == MaxElem - 1
Elems == 0..TMax
Replicas == 1..NumReplicas

\* ------------------------------------------------------- Option<T> -------
None == {}
Some(x) == {x}

\* ------------------------------------------------- std::HashSet<T> -------
\* HashSet::insert: adds the value, returns true iff it was not present.
HashSet_insert(hs, value) ==
    [hs |-> hs \cup {value}, inserted |-> value \notin hs]

\* HashSet::len
HashSet_len(hs) == Cardinality(hs)

\* HashSet::contains
HashSet_contains(hs, value) == value \in hs

\* HashSet::is_subset: false at once when self is longer, else all contained.
HashSet_is_subset(hs, other) ==
    IF HashSet_len(hs) <= HashSet_len(other)
    THEN \A v \in hs : HashSet_contains(other, v)
    ELSE FALSE

\* HashSet == HashSet: equal lengths and every key of self in other.
HashSet_eq(hs, other) ==
    IF HashSet_len(hs) # HashSet_len(other)
    THEN FALSE
    ELSE \A k \in hs : HashSet_contains(other, k)

\* HashSet::into_iter: the sequences that yield each value exactly once.
into_iter(hs) ==
    {it \in [1..Cardinality(hs) -> hs] :
        \A i, j \in 1..Cardinality(hs) : i # j => it[i] # it[j]}

\* HashSet::extend: insert every value the iterator yields, in its order.
RECURSIVE HashSet_extend(_, _)
HashSet_extend(hs, iter) ==
    IF iter = <<>>
    THEN hs
    ELSE HashSet_extend(HashSet_insert(hs, Head(iter)).hs, Tail(iter))

\* ------------------------------------------------------ GSet, GSetOp -----
GSetOp(e) == [element |-> e]

\* GSet::new
new == [elements |-> {}]

\* Mutants of insert: the novelty test inverted; the element is looked up
\* but never put into the set.
insert_forgot(self, element) ==
    IF HashSet_contains(self.elements, element)
    THEN [self |-> self, ret |-> None]
    ELSE [self |-> self, ret |-> Some(GSetOp(element))]

insert_inverted(self, element) ==
    LET r == HashSet_insert(self.elements, element) IN
    IF ~r.inserted
    THEN [self |-> [elements |-> r.hs], ret |-> Some(GSetOp(element))]
    ELSE [self |-> [elements |-> r.hs], ret |-> None]

\* GSet::insert: the state afterwards and the returned Option<GSetOp>.
insert(self, element) ==
    LET r == HashSet_insert(self.elements, element) IN
    IF r.inserted
    THEN [self |-> [elements |-> r.hs], ret |-> Some(GSetOp(element))]
    ELSE [self |-> [elements |-> r.hs], ret |-> None]

\* GSet::len
len(self) == HashSet_len(self.elements)

\* GSet::contains
contains(self, value) == HashSet_contains(self.elements, value)

\* GSet::is_empty
is_empty(self) == self.elements = {}

\* GSet::is_subset
is_subset(self, other) == HashSet_is_subset(self.elements, other.elements)

\* Mutants of merge: other replaces self; only the first value is taken.
merge_assign(self, other) == {[elements |-> other.elements]}

merge_first(self, other) ==
    {[elements |-> HashSet_extend(self.elements,
                                  IF it = <<>> THEN <<>> ELSE <<Head(it)>>)] :
        it \in into_iter(other.elements)}

\* GSet::merge: the states self can be left in, one per iteration order.
merge(self, other) ==
    {[elements |-> HashSet_extend(self.elements, it)] :
        it \in into_iter(other.elements)}

\* Mutants of apply: the operation is dropped; an operation whose element is
\* present removes it; the operation's element replaces the set.
apply_dropped(self, op) == self

apply_toggle(self, op) ==
    IF op.element \in self.elements
    THEN [elements |-> self.elements \ {op.element}]
    ELSE insert(self, op.element).self

apply_replace(self, op) == [elements |-> {op.element}]

\* GSet::apply: insert the operation's element, drop the returned option.
apply(self, op) == insert(self, op.element).self

\* Mutant of eq: only the lengths are compared.
eq_len(self, other) == HashSet_len(self.elements) = HashSet_len(other.elements)

\* GSet == GSet
eq(self, other) == HashSet_eq(self.elements, other.elements)

\* std::cmp::Ordering
Less == "Less"
Equal == "Equal"
Greater == "Greater"

\* HashSet::is_superset: other.is_subset(self)
HashSet_is_superset(hs, other) == HashSet_is_subset(other, hs)

\* Mutants of partial_cmp: the subset test comes before the equality test;
\* Less and Greater are swapped; the superset test repeats the subset test;
\* the last branch breaks the tie instead of reporting no order.
partial_cmp_subset_first(self, other) ==
    IF HashSet_is_subset(self.elements, other.elements) THEN Some(Less)
    ELSE IF HashSet_eq(self.elements, other.elements) THEN Some(Equal)
    ELSE IF HashSet_is_superset(self.elements, other.elements) THEN Some(Greater)
    ELSE None

partial_cmp_swapped(self, other) ==
    IF HashSet_eq(self.elements, other.elements) THEN Some(Equal)
    ELSE IF HashSet_is_subset(self.elements, other.elements) THEN Some(Greater)
    ELSE IF HashSet_is_superset(self.elements, other.elements) THEN Some(Less)
    ELSE None

partial_cmp_no_superset(self, other) ==
    IF HashSet_eq(self.elements, other.elements) THEN Some(Equal)
    ELSE IF HashSet_is_subset(self.elements, other.elements) THEN Some(Less)
    ELSE IF HashSet_is_subset(self.elements, other.elements) THEN Some(Greater)
    ELSE None

partial_cmp_total(self, other) ==
    IF HashSet_eq(self.elements, other.elements) THEN Some(Equal)
    ELSE IF HashSet_is_subset(self.elements, other.elements) THEN Some(Less)
    ELSE Some(Greater)

\* GSet::partial_cmp: Option<Ordering>
partial_cmp(self, other) ==
    IF HashSet_eq(self.elements, other.elements) THEN Some(Equal)
    ELSE IF HashSet_is_subset(self.elements, other.elements) THEN Some(Less)
    ELSE IF HashSet_is_superset(self.elements, other.elements) THEN Some(Greater)
    ELSE None

\* PartialOrd's provided methods, all from partial_cmp: a < b, a <= b, a > b.
lt(self, other) == partial_cmp(self, other) = Some(Less)

le(self, other) == partial_cmp(self, other) \in {Some(Less), Some(Equal)}

gt(self, other) == partial_cmp(self, other) = Some(Greater)

\* GSet::clone
clone(self) == [elements |-> self.elements]

\* Arbitrary for GSet: any vector of elements, collected into a HashSet.
arbitrary == {[elements |-> S] : S \in SUBSET Elems}

\* Arbitrary for GSetOp: an operation on any element.
arbitrary_op == {GSetOp(e) : e \in Elems}

\* ---------------------------------------------------------- state -------
VARIABLES
    replicas,    \* replica -> its GSet
    snapshots,   \* clones of replicas in transit, each with what its source had observed
    ops,         \* the operations insert has returned so far (the broadcast records)
    observed,    \* replica -> elements whose insertion it has observed (history)
    inserted,    \* elements passed to a local insert at any replica (history)
    inserting,   \* FALSE once local inserts have stopped
    test,        \* LawSpec: the property that has been run, "arbitrary" before
    crdt,        \* LawSpec: the generated GSet
    others,      \* LawSpec: the generated Vec<GSet>
    operations,  \* LawSpec: the generated Vec<GSetOp>
    out,         \* LawSpec: the two states the property compares, and what it built
    i,           \* LawSpec: the counter of check_ordering_lt's loop
    success      \* LawSpec: what the last insert of that loop returned

sysvars == <<replicas, snapshots, ops, observed, inserted, inserting>>
lawvars == <<test, crdt, others, operations, out, i, success>>
vars == <<replicas, snapshots, ops, observed, inserted, inserting,
          test, crdt, others, operations, out, i, success>>

SysInit ==
    /\ replicas = [r \in Replicas |-> new]
    /\ snapshots = {}
    /\ ops = {}
    /\ observed = [r \in Replicas |-> {}]
    /\ inserted = {}
    /\ inserting = TRUE

LawIdle ==
    /\ test = "idle"
    /\ crdt = new
    /\ others = <<>>
    /\ operations = <<>>
    /\ out = [lhs |-> new, rhs |-> new, built |-> <<>>]
    /\ i = 0
    /\ success = None

Init == SysInit /\ LawIdle

\* ------------------------------------------------ replica operations -----
\* A caller inserts element e at replica r and broadcasts the operation
\* insert returns, if any.
Insert(r, e) ==
    /\ inserting
    /\ LET res == insert(replicas[r], e) IN
        /\ replicas' = [replicas EXCEPT ![r] = res.self]
        /\ ops' = ops \cup res.ret
    /\ observed' = [observed EXCEPT ![r] = @ \cup {e}]
    /\ inserted' = inserted \cup {e}
    /\ UNCHANGED <<snapshots, inserting>>
    /\ UNCHANGED lawvars

\* Replica r receives a broadcast operation: any one, any number of times.
Apply(r, op) ==
    /\ op \in ops
    /\ replicas' = [replicas EXCEPT ![r] = apply(@, op)]
    /\ observed' = [observed EXCEPT ![r] = @ \cup {op.element}]
    /\ UNCHANGED <<snapshots, ops, inserted, inserting>>
    /\ UNCHANGED lawvars

\* A clone of replica q is sent out as a snapshot.
TakeSnapshot(q) ==
    /\ Cardinality(snapshots) < MaxSnapshots
    /\ snapshots' = snapshots \cup
            {[state |-> clone(replicas[q]), observed |-> observed[q]]}
    /\ UNCHANGED <<replicas, ops, observed, inserted, inserting>>
    /\ UNCHANGED lawvars

\* Replica r merges snapshot s.  merge takes `other` by value: either the
\* snapshot itself is merged and is gone, or a clone of it is and it stays
\* in transit to be delivered again.
Merge(r, s, keep) ==
    /\ s \in snapshots
    /\ LET other == IF keep THEN clone(s.state) ELSE s.state IN
        \E post \in merge(replicas[r], other) :
            replicas' = [replicas EXCEPT ![r] = post]
    /\ snapshots' = IF keep THEN snapshots ELSE snapshots \ {s}
    /\ observed' = [observed EXCEPT ![r] = @ \cup s.observed]
    /\ UNCHANGED <<ops, inserted, inserting>>
    /\ UNCHANGED lawvars

\* Local inserts stop.
StopInserts ==
    /\ inserting
    /\ inserting' = FALSE
    /\ UNCHANGED <<replicas, snapshots, ops, observed, inserted>>
    /\ UNCHANGED lawvars

Next ==
    \/ \E r \in Replicas, e \in Elems : Insert(r, e)
    \/ \E r \in Replicas, op \in arbitrary_op : Apply(r, op)
    \/ \E q \in Replicas : TakeSnapshot(q)
    \/ \E r \in Replicas, s \in snapshots, keep \in BOOLEAN : Merge(r, s, keep)

Spec == Init /\ [][Next]_vars

\* Operation-based replication: only operations travel, and every broadcast
\* operation keeps being delivered to every replica.
OpNext ==
    \/ \E r \in Replicas, e \in Elems : Insert(r, e)
    \/ \E r \in Replicas, op \in arbitrary_op : Apply(r, op)
    \/ StopInserts

FairSpec ==
    /\ Init
    /\ [][OpNext]_vars
    /\ \A r \in Replicas, op \in arbitrary_op : WF_vars(Apply(r, op))

\* ------------------------------------------------- the property tests ---
\* Arbitrary for Vec<X>: the vectors of at most n values of S.
VecOf(S, n) == UNION {[1..k -> S] : k \in 0..n}

\* The orders a vector's positions can be visited in.
Orders(n) ==
    {p \in [1..n -> 1..n] : \A j, k \in 1..n : j # k => p[j] # p[k]}

Permuted(list) ==
    {[k \in 1..Len(list) |-> list[p[k]]] : p \in Orders(Len(list))}

\* for op in operations { crdt.apply(op) }
RECURSIVE apply_all(_, _)
apply_all(self, list) ==
    IF list = <<>>
    THEN self
    ELSE apply_all(apply(self, Head(list)), Tail(list))

\* for other in others { crdt.merge(other.clone()) }: the possible results.
RECURSIVE merge_all(_, _)
merge_all(self, list) ==
    IF list = <<>>
    THEN {self}
    ELSE UNION {merge_all(m, Tail(list)) : m \in merge(self, clone(Head(list)))}

\* for element in elements { set.insert(element) } on a new set.
RECURSIVE insert_all(_, _)
insert_all(self, list) ==
    IF list = <<>>
    THEN self
    ELSE insert_all(insert(self, Head(list)).self, Tail(list))

ElementsOf(list) == [k \in 1..Len(list) |-> list[k].element]

\* quickcheck draws a GSet and either a Vec<GSet> or a Vec<GSetOp>.
LawInit ==
    /\ SysInit
    /\ test = "arbitrary"
    /\ crdt \in arbitrary
    /\ \/ others \in VecOf(arbitrary, MaxOthers) /\ operations = <<>>
       \/ others = <<>> /\ operations \in VecOf(arbitrary_op, MaxOps)
    /\ out = [lhs |-> new, rhs |-> new, built |-> <<>>]
    /\ i = 0
    /\ success = None

\* A test runs once on the drawn inputs; out keeps the two states it compares
\* and the vector it built from the inputs, if any.
Ran(name, lhs, rhs, built) ==
    /\ test' = name
    /\ out' = [lhs |-> lhs, rhs |-> rhs, built |-> built]
    /\ UNCHANGED <<crdt, others, operations, i, success>>
    /\ UNCHANGED sysvars

\* a.merge(b) against b.merge(a)
MergeSwapped ==
    /\ test = "arbitrary"
    /\ Len(others) >= 1
    /\ \E l \in merge(crdt, clone(others[1])), r \in merge(others[1], clone(crdt)) :
        Ran("merge_swapped", l, r, <<>>)

\* merge_is_commutative: the others merged in one order and in another.
MergeIsCommutative ==
    /\ test = "arbitrary"
    /\ \E reordered \in Permuted(others) :
        \E l \in merge_all(crdt, others), r \in merge_all(crdt, reordered) :
            Ran("merge_is_commutative", l, r, reordered)

\* (a.merge(b)).merge(c) against a.merge(b.merge(c))
MergeIsAssociative ==
    /\ test = "arbitrary"
    /\ Len(others) >= 2
    /\ \E ab \in merge(crdt, clone(others[1])), bc \in merge(others[1], clone(others[2])) :
        \E l \in merge(ab, clone(others[2])), r \in merge(crdt, bc) :
            Ran("merge_is_associative", l, r, <<>>)

\* a.merge(b) twice against once
MergeIsIdempotent ==
    /\ test = "arbitrary"
    /\ Len(others) >= 1
    /\ \E once \in merge(crdt, clone(others[1])), first \in merge(crdt, clone(others[1])) :
        \E twice \in merge(first, clone(others[1])) :
            Ran("merge_is_idempotent", twice, once, <<>>)

\* a.merge(a.clone()) against a
MergeSelf ==
    /\ test = "arbitrary"
    /\ \E l \in merge(crdt, clone(crdt)) : Ran("merge_self", l, clone(crdt), <<>>)

\* local.merge(remote): the result, next to the merged state.
MergeExample ==
    /\ test = "arbitrary"
    /\ Len(others) >= 1
    /\ \E l \in merge(crdt, clone(others[1])) : Ran("merge", l, clone(others[1]), <<>>)

\* s.apply(op) twice against once
ApplyIsIdempotent ==
    /\ test = "arbitrary"
    /\ Len(operations) >= 1
    /\ LET op == operations[1] IN
        Ran("apply_is_idempotent", apply(apply(crdt, op), op), apply(crdt, op), <<>>)

\* apply_is_commutative: the operations applied in one order and in another.
ApplyIsCommutative ==
    /\ test = "arbitrary"
    /\ \E reordered \in Permuted(operations) :
        Ran("apply_is_commutative",
            apply_all(crdt, operations), apply_all(crdt, reordered), reordered)

\* The operations applied to crdt, against the snapshots of two replicas that
\* between them made the same insertions, merged into crdt.
ApplyAgainstSnapshots ==
    /\ test = "arbitrary"
    /\ \E k \in 0..Len(operations) :
        LET first == insert_all(new, ElementsOf(SubSeq(operations, 1, k)))
            second == insert_all(new, ElementsOf(SubSeq(operations, k + 1, Len(operations))))
        IN  \E r \in merge_all(crdt, <<first, second>>) :
                Ran("apply_against_snapshots", apply_all(crdt, operations), r,
                    <<first, second>>)

\* The operations applied to crdt, against merging in the state each
\* operation produces when applied alone.
ApplyAgainstMergeEach ==
    /\ test = "arbitrary"
    /\ LET alone == [k \in 1..Len(operations) |-> apply(new, operations[k])] IN
        \E r \in merge_all(crdt, alone) :
            Ran("apply_against_merge_each", apply_all(crdt, operations), r, alone)

\* ordering_lte: a <= b next to a.is_subset(b).
OrderingLte ==
    /\ test = "arbitrary"
    /\ Len(others) >= 1
    /\ Ran("ordering_lte", le(crdt, others[1]), is_subset(crdt, others[1]), <<>>)

\* a.partial_cmp(b) next to b.partial_cmp(a).
PartialCmp ==
    /\ test = "arbitrary"
    /\ Len(others) >= 1
    /\ Ran("partial_cmp", partial_cmp(crdt, others[1]),
           partial_cmp(others[1], crdt), <<>>)

\* check_local_insert: the elements are inserted into a new set one after the
\* other.  The Vec of elements is drawn as the elements of the drawn
\* operations.
LocalInsert ==
    /\ test = "arbitrary"
    /\ LET elements == ElementsOf(operations) IN
        Ran("local_insert", insert_all(new, elements), new, elements)

\* check_ordering_lt(a, b), with a = crdt and b = others[1], step by step.
\* a.merge(b.clone()); let mut i = 0; let mut success = None;
OrderingLtMerge ==
    /\ test = "arbitrary"
    /\ Len(others) >= 1
    /\ \E a \in merge(crdt, clone(others[1])) :
        out' = [lhs |-> a, rhs |-> others[1], built |-> <<>>]
    /\ test' = "ordering_lt_loop"
    /\ i' = 0
    /\ success' = None
    /\ UNCHANGED <<crdt, others, operations>>
    /\ UNCHANGED sysvars

\* while success.is_none() { success = a.insert(i); i += 1; }
\* i has the element type.  At i = TMax the increment overflows: a build with
\* overflow checks panics there, a build without them wraps i to 0.
OrderingLtLoop ==
    /\ test = "ordering_lt_loop"
    /\ success = None
    /\ LET res == insert(out.lhs, i) IN
        /\ success' = res.ret
        /\ out' = [out EXCEPT !.lhs = res.self]
    /\ IF i < TMax
       THEN i' = i + 1 /\ test' = test
       ELSE \/ i' = i /\ test' = "panicked"
            \/ i' = 0 /\ test' = test
    /\ UNCHANGED <<crdt, others, operations>>
    /\ UNCHANGED sysvars

\* a > b && b < a
OrderingLtReturn ==
    /\ test = "ordering_lt_loop"
    /\ success # None
    /\ test' = "ordering_lt"
    /\ out' = [out EXCEPT !.built = <<gt(out.lhs, out.rhs), lt(out.rhs, out.lhs)>>]
    /\ UNCHANGED <<crdt, others, operations, i, success>>
    /\ UNCHANGED sysvars

LawNext ==
    \/ OrderingLtMerge
    \/ OrderingLtLoop
    \/ OrderingLtReturn
    \/ LocalInsert
    \/ OrderingLte
    \/ PartialCmp
    \/ MergeSwapped
    \/ MergeIsCommutative
    \/ MergeIsAssociative
    \/ MergeIsIdempotent
    \/ MergeSelf
    \/ MergeExample
    \/ ApplyIsIdempotent
    \/ ApplyIsCommutative
    \/ ApplyAgainstSnapshots
    \/ ApplyAgainstMergeEach

LawSpec == LawInit /\ [][LawNext]_vars

\* --------------------------------------------------------- properties ---
Incomparable(a, b) == ~is_subset(a, b) /\ ~is_subset(b, a)

\* C1 (Spec): every replica holds exactly the elements whose insertion it
\* has observed (by local insert, by apply or by merge), and two replicas
\* that have observed the same insertions are equal.
C1_ObservedInsertions ==
    /\ \A r \in Replicas, e \in Elems :
        contains(replicas[r], e) <=> e \in observed[r]
    /\ \A r1, r2 \in Replicas :
        observed[r1] = observed[r2] => eq(replicas[r1], replicas[r2])

\* Two replicas have observed the same two or more insertions and are equal,
\* while a snapshot taken earlier, holding fewer elements, is still in transit.
C1_Witness ==
    \E r1, r2 \in Replicas, s \in snapshots :
        /\ r1 # r2
        /\ observed[r1] = observed[r2]
        /\ Cardinality(observed[r1]) >= 2
        /\ eq(replicas[r1], replicas[r2])
        /\ len(s.state) < len(replicas[r1])
        /\ ~is_empty(s.state)

\* Every replica holds exactly the elements inserted at any replica.
Converged ==
    /\ \A r \in Replicas, e \in Elems :
        contains(replicas[r], e) <=> e \in inserted
    /\ \A r1, r2 \in Replicas : eq(replicas[r1], replicas[r2])

\* C2 (FairSpec): with every broadcast operation delivered to every replica,
\* once local inserts have stopped the replicas eventually all hold the union
\* of the elements inserted anywhere, and stay so.
C2_EventualConvergence == (~inserting) ~> []Converged

\* Inserts have stopped and the replicas have converged on two or more
\* elements.
C2_Witness ==
    /\ ~inserting
    /\ Converged
    /\ Cardinality(inserted) >= 2
    /\ Cardinality(ops) >= 2

\* C3 (LawSpec): applying a vector of operations (any order, duplicates
\* allowed) to a state leaves it equal to merging into that state the
\* snapshots of replicas that made the same insertions, and equal to merging
\* in the states each operation produces when applied alone.
C3_ApplyEqualsMerge ==
    test \in {"apply_against_snapshots", "apply_against_merge_each"}
        => eq(out.lhs, out.rhs)

\* Operations with a duplicate and two distinct elements, one of them new to
\* the state, went in as operations and as two non-empty snapshots.
C3_Witness ==
    /\ test = "apply_against_snapshots"
    /\ \E j, k \in 1..Len(operations) : j # k /\ operations[j] = operations[k]
    /\ \E j, k \in 1..Len(operations) : operations[j] # operations[k]
    /\ \E k \in 1..Len(operations) : ~contains(crdt, operations[k].element)
    /\ ~is_empty(crdt)
    /\ ~is_empty(out.built[1]) /\ ~is_empty(out.built[2])
    /\ len(out.lhs) > len(crdt)
    /\ eq(out.lhs, out.rhs)

\* C4 (LawSpec): a.merge(b) and b.merge(a) leave equal states, and merging a
\* vector of sets into a state in one order or another leaves equal states.
C4_MergeCommutative ==
    test \in {"merge_swapped", "merge_is_commutative"} => eq(out.lhs, out.rhs)

\* Two sets, neither a subset of the other, were merged into a third in both
\* orders.
C4_Witness ==
    /\ test = "merge_is_commutative"
    /\ Len(others) = 2
    /\ out.built = <<others[2], others[1]>>
    /\ Incomparable(others[1], others[2])
    /\ Incomparable(crdt, others[1])
    /\ eq(out.lhs, out.rhs)

\* C5 (LawSpec): (a.merge(b)).merge(c) equals a.merge(b.merge(c)).
C5_MergeAssociative ==
    test = "merge_is_associative" => eq(out.lhs, out.rhs)

\* Three pairwise incomparable sets were merged both ways.
C5_Witness ==
    /\ test = "merge_is_associative"
    /\ Incomparable(crdt, others[1])
    /\ Incomparable(crdt, others[2])
    /\ Incomparable(others[1], others[2])
    /\ eq(out.lhs, out.rhs)

\* C6 (LawSpec): merging b into a twice equals merging it once, and merging
\* a clone of a into a leaves a as it was.
C6_MergeIdempotent ==
    test \in {"merge_is_idempotent", "merge_self"} => eq(out.lhs, out.rhs)

\* A set with two or more elements new to a was merged into it twice.
C6_Witness ==
    /\ test = "merge_is_idempotent"
    /\ ~is_empty(crdt)
    /\ Cardinality(others[1].elements \ crdt.elements) >= 2
    /\ len(out.lhs) = len(crdt) + 2
    /\ eq(out.lhs, out.rhs)

\* C7 (LawSpec): applying an operation twice equals applying it once,
\* whether or not its element was in the set.
C7_ApplyIdempotent ==
    test = "apply_is_idempotent" => eq(out.lhs, out.rhs)

\* An operation whose element was not in a non-empty set was applied twice.
C7_Witness ==
    /\ test = "apply_is_idempotent"
    /\ ~is_empty(crdt)
    /\ ~contains(crdt, operations[1].element)
    /\ contains(out.lhs, operations[1].element)
    /\ eq(out.lhs, out.rhs)

\* C8 (LawSpec): applying a vector of operations (duplicates allowed) in one
\* order and in any other order leaves equal states.
C8_ApplyCommutative ==
    test = "apply_is_commutative" => eq(out.lhs, out.rhs)

\* Three operations, two of them equal, were applied forwards and reversed.
C8_Witness ==
    /\ test = "apply_is_commutative"
    /\ Len(operations) = 3
    /\ operations[1] = operations[3]
    /\ operations[1] # operations[2]
    /\ out.built = <<operations[3], operations[2], operations[1]>>
    /\ ~contains(crdt, operations[2].element)
    /\ eq(out.lhs, out.rhs)

\* C9 (Spec): at every replica and for every element e, insert(e) returns
\* the operation carrying e iff e was not in the set and returns nothing iff
\* it was; e is in the set afterwards, and len grows by 1 in the first case
\* and by 0 in the second.
C9_InsertContract ==
    \A r \in Replicas, e \in Elems :
        LET before == replicas[r]
            res == insert(before, e)
        IN  /\ res.ret = Some(GSetOp(e)) <=> ~contains(before, e)
            /\ res.ret = None <=> contains(before, e)
            /\ contains(res.self, e)
            /\ len(res.self) = len(before) + (IF contains(before, e) THEN 0 ELSE 1)

\* A replica holds an element whose insertion was broadcast, so inserting it
\* again returns nothing, while another element is still new to it.
C9_Witness ==
    \E r \in Replicas, e1, e2 \in Elems :
        /\ contains(replicas[r], e1)
        /\ GSetOp(e1) \in ops
        /\ insert(replicas[r], e1).ret = None
        /\ ~contains(replicas[r], e2)
        /\ insert(replicas[r], e2).ret = Some(GSetOp(e2))

\* C10 (LawSpec): after a.merge(b), a holds exactly the elements of the old
\* a and of b.
C10_MergeIsUnion ==
    test = "merge" =>
        \A e \in Elems :
            contains(out.lhs, e) <=> (contains(crdt, e) \/ contains(others[1], e))

\* Two incomparable sets were merged.
C10_Witness ==
    /\ test = "merge"
    /\ Incomparable(crdt, others[1])
    /\ len(out.lhs) = MaxElem

\* C11 (Spec): contains is monotone: an element a replica contains is still
\* contained after any insert, apply or merge at any replica.
C11_ContainsMonotone ==
    [][\A r \in Replicas, e \in Elems :
        contains(replicas[r], e) => contains(replicas'[r], e)]_vars

\* A replica that holds every element has a snapshot holding fewer of them
\* in transit, ready to be merged into it.
C11_Witness ==
    \E r \in Replicas, s \in snapshots :
        /\ len(replicas[r]) = MaxElem
        /\ len(s.state) < MaxElem
        /\ Cardinality(ops) = MaxElem

\* C12 (Spec): len never decreases: after any single insert, apply or merge
\* the len of every replica is at least what it was.
C12_LenNonDecreasing ==
    [][\A r \in Replicas : len(replicas'[r]) >= len(replicas[r])]_vars

\* A replica with two elements, both broadcast, so that applying either
\* operation again or inserting either element again leaves len at 2.
C12_Witness ==
    \E r \in Replicas :
        /\ len(replicas[r]) = 2
        /\ \A e \in Elems : contains(replicas[r], e) => GSetOp(e) \in ops
        /\ \E q \in Replicas : len(replicas[q]) < len(replicas[r])

\* C13 (LawSpec): a <= b exactly when a.is_subset(b).
C13_LteIsSubset ==
    test = "ordering_lte" =>
        /\ out.lhs <=> out.rhs
        /\ out.rhs <=> \A e \in Elems : contains(crdt, e) => contains(others[1], e)

\* A proper subset with elements, compared with its superset.
C13_Witness ==
    /\ test = "ordering_lte"
    /\ ~is_empty(crdt)
    /\ len(crdt) < len(others[1])
    /\ out.lhs /\ out.rhs

\* C14 (LawSpec): partial_cmp reports no order exactly when neither set is a
\* subset of the other; it is then none of Equal, Less and Greater, and the
\* sets are not equal.
C14_IncomparableIsNone ==
    test = "partial_cmp" =>
        /\ out.lhs = None <=> Incomparable(crdt, others[1])
        /\ Incomparable(crdt, others[1]) =>
            /\ out.lhs \notin {Some(Equal), Some(Less), Some(Greater)}
            /\ out.rhs = None
            /\ ~eq(crdt, others[1])

\* Two sets that share an element and each hold one the other lacks.
C14_Witness ==
    /\ test = "partial_cmp"
    /\ crdt.elements \cap others[1].elements # {}
    /\ crdt.elements \ others[1].elements # {}
    /\ others[1].elements \ crdt.elements # {}
    /\ out.lhs = None

\* The GSets that exist in the replica system: the replicas and the
\* snapshots in transit.
Built == {replicas[r] : r \in Replicas} \cup {s.state : s \in snapshots}

\* C15 (Spec): whatever inserts, applies and merges built them, two sets are
\* equal exactly when they hold the same elements, and partial_cmp reports
\* Equal exactly when they are equal.
C15_EqualIsSameElements ==
    \A a, b \in Built :
        /\ eq(a, b) <=> \A e \in Elems : contains(a, e) <=> contains(b, e)
        /\ partial_cmp(a, b) = Some(Equal) <=> eq(a, b)

\* Two replicas are equal on two or more elements, and a snapshot in transit
\* with one element is not equal to them.
C15_Witness ==
    \E r1, r2 \in Replicas, s \in snapshots :
        /\ r1 # r2
        /\ len(replicas[r1]) >= 2
        /\ eq(replicas[r1], replicas[r2])
        /\ partial_cmp(replicas[r1], replicas[r2]) = Some(Equal)
        /\ ~eq(s.state, replicas[r1])
        /\ len(s.state) = 1

\* C16 (LawSpec): the state m that a.merge(b) leaves is the least upper bound
\* of a and b: a <= m, b <= m, and m <= c for every c with a <= c and b <= c.
C16_MergeIsJoin ==
    test = "merge" =>
        /\ le(crdt, out.lhs)
        /\ le(others[1], out.lhs)
        /\ \A c \in arbitrary :
            (le(crdt, c) /\ le(others[1], c)) => le(out.lhs, c)

\* Two incomparable sets were merged, and a set strictly above their merge
\* exists.
C16_Witness ==
    /\ test = "merge"
    /\ Incomparable(crdt, others[1])
    /\ lt(crdt, out.lhs) /\ lt(others[1], out.lhs)
    /\ \E c \in arbitrary : lt(out.lhs, c)

\* C19 as stated (LawSpec): partial_cmp(a, b) is Less whenever a is a subset
\* of b, proper or not, and Greater whenever a is a superset of b.
C19_LessOnAnySubset ==
    test = "partial_cmp" =>
        /\ is_subset(crdt, others[1]) => out.lhs = Some(Less)
        /\ is_subset(others[1], crdt) => out.lhs = Some(Greater)

\* C19 as amended (LawSpec): partial_cmp(a, b) is Equal when a and b hold the
\* same elements, Less when a is a proper subset of b and Greater when a is a
\* proper superset of b.
C19_LessOnProperSubset ==
    test = "partial_cmp" =>
        /\ (is_subset(crdt, others[1]) /\ is_subset(others[1], crdt))
                => out.lhs = Some(Equal)
        /\ (is_subset(crdt, others[1]) /\ ~is_subset(others[1], crdt))
                => out.lhs = Some(Less)
        /\ (is_subset(others[1], crdt) /\ ~is_subset(crdt, others[1]))
                => out.lhs = Some(Greater)

\* Two sets with the same elements were compared: each is a non-proper
\* subset of the other, and the answer is Equal.
C19_Witness ==
    /\ test = "partial_cmp"
    /\ ~is_empty(crdt)
    /\ is_subset(crdt, others[1]) /\ is_subset(others[1], crdt)
    /\ out.lhs = Some(Equal)

\* C17 (LawSpec): after every element of a vector (duplicates allowed) has
\* been inserted into a new set, the set contains each of them and its len
\* is the number of distinct elements of the vector.
C17_LocalInsert ==
    test = "local_insert" =>
        /\ \A k \in 1..Len(out.built) : contains(out.lhs, out.built[k])
        /\ len(out.lhs) = Cardinality({out.built[k] : k \in 1..Len(out.built)})

\* Three elements were inserted, the first and the last the same.
C17_Witness ==
    /\ test = "local_insert"
    /\ Len(out.built) = 3
    /\ out.built[1] = out.built[3]
    /\ out.built[1] # out.built[2]
    /\ len(out.lhs) = 2

\* C18 (LawSpec): when b has been merged into a and a has then gained an
\* element it did not hold, a > b and b < a: partial_cmp(a, b) is Greater and
\* partial_cmp(b, a) is Less.
C18_StrictOrderOnGrowth ==
    test = "ordering_lt" =>
        /\ out.built = <<TRUE, TRUE>>
        /\ partial_cmp(out.lhs, out.rhs) = Some(Greater)
        /\ partial_cmp(out.rhs, out.lhs) = Some(Less)

\* a and b were incomparable and held 0, so the loop took more than one
\* round before a gained an element; b is then a proper subset of a.
C18_Witness ==
    /\ test = "ordering_lt"
    /\ Incomparable(crdt, others[1])
    /\ contains(crdt, 0)
    /\ i >= 2
    /\ success # None
    /\ is_subset(out.rhs, out.lhs) /\ ~is_subset(out.lhs, out.rhs)
    /\ out.built = <<TRUE, TRUE>>

\* C20 (LawSpec): the loop of check_ordering_lt ends with a successful insert
\* for every a and b, and the counter i is never incremented past the largest
\* value of its type: no round of the loop starts with i at that value, and
\* the test never panics on the increment.
C20_LoopCounterInRange ==
    /\ test # "panicked"
    /\ (test = "ordering_lt_loop" /\ success = None) => i < TMax

====
